---- MODULE Spec2Model ----
(***************************************************************************)
(* StickyLand code-cell mirroring (src/src/code.ts, class StickyCode).     *)
(*                                                                         *)
(* The host notebook is a list of cells (notebook.content.widgets) with an *)
(* active-cell index; every cell has an execution count and two visibility *)
(* flags.  A StickyCode object ("mirror") is created from a cell of the    *)
(* notebook, listens to the cell model's stateChanged signal and to the    *)
(* notebook-wide executionScheduled signal, and runs its original cell     *)
(* through the notebook (execute).  All handlers run to completion on one  *)
(* event loop, so every handler is one action.                             *)
(***************************************************************************)
EXTENDS Integers, Sequences, FiniteSets, TLC

\* Bounds of the model.
MaxCells == 2
MaxMirrors == 2
MaxCount == 1
MaxWindows == 2
MaxNewCells == 1         \* cells inserted by createFromNewCell
MaxThrows == 1           \* creations that throw part-way

\* JavaScript null (execution count, timer slot, floating window).
Null == -1

VARIABLES
    widgets,          \* notebook.content.widgets: the cells of the document, in order
    activeCellIndex,  \* notebook.content.activeCellIndex (0-based, -1: no cell)
    numCells,         \* number of cells the document has ever held (cell identities 1..numCells)
    executionCount,   \* cell.model.executionCount of every cell
    isDirty,          \* cell.model.isDirty of every cell
    inputHidden,      \* cell.inputHidden of every cell of the notebook
    outputHidden,     \* cell.outputHidden of every cell of the notebook
    mirrors,          \* the StickyCode objects created so far, in creation order
    timers,           \* the pending setTimeout callbacks: [id, mirror]
    floatingWindows,  \* stickyLand.floatingWindows
    orphanNodes,      \* sticky-code nodes left in a panel by a creation that threw
    lastScheduled,    \* args.cell of the latest executionScheduled emission
    lastCall          \* the handler that ran last: [op, id]

vars == <<widgets, activeCellIndex, numCells, executionCount, isDirty, inputHidden,
          outputHidden, mirrors, timers, floatingWindows, lastScheduled, lastCall, orphanNodes>>

CellIds == 1..(MaxCells + MaxNewCells)

\* The children of stickyContent.wrapperNode: the panel's header and content.
WrapperChildren == {"headerNode", "contentNode"}

Range(s) == {s[i] : i \in DOMAIN s}

Call(op, id) == [op |-> op, id |-> id]

-----------------------------------------------------------------------------
(* Pure helpers.                                                           *)

\* Faulty variant of findFirstIndex: the 1-based position is returned as the index.
findFirstIndexOneBased(ws, cell) ==
    IF \E i \in DOMAIN ws : ws[i] = cell
    THEN CHOOSE i \in DOMAIN ws : ws[i] = cell
    ELSE -1

\* ArrayExt.findFirstIndex(widgets, w => w.node === cell.node): 0-based, -1 if absent.
findFirstIndex(ws, cell) ==
    IF \E i \in DOMAIN ws : ws[i] = cell
    THEN (CHOOSE i \in DOMAIN ws : ws[i] = cell /\ \A j \in 1..(i - 1) : ws[j] # cell) - 1
    ELSE -1

\* The notebook's activeCellIndex setter keeps the index inside the document
\* (-1 when the document is empty).
SetActiveCellIndex(ws, newValue) ==
    IF Len(ws) = 0 THEN -1
    ELSE IF newValue < 0 THEN 0
    ELSE IF newValue > Len(ws) - 1 THEN Len(ws) - 1
    ELSE newValue

\* The executionCount setter's text for the counter element.
ExecutionCounterText(newCount) ==
    IF newCount # Null THEN "[" \o ToString(newCount) \o "]" ELSE "[*]"

\* The pending timers armed for mirror m.
PendingIn(ts, m) == {t \in ts : t.mirror = m}

\* clearTimeout(id): a no-op when no pending timer has this id.
clearTimeout(ts, id) == {t \in ts : t.id # id}

\* setTimeout's return value: an id no pending timer and no slot holds.  Ids are
\* only ever compared for equality, so the least unused one stands for a fresh one.
setTimeout(ms, ts) ==
    LET used == {t.id : t \in ts} \cup {ms[k].autoRunTimeout : k \in DOMAIN ms}
    IN  CHOOSE i \in 1..(Cardinality(used) + 1) :
            i \notin used /\ \A j \in 1..(i - 1) : j \in used

\* Faulty variant of executionScheduledListener: the pending timer is not cleared.
executionScheduledListenerNoClear(cell, ms, ts, k) ==
    IF cell # ms[k].originalCell /\ ms[k].autoRun
    THEN LET id == setTimeout(ms, ts)
         IN  [mirrors |-> [ms EXCEPT ![k].autoRunTimeout = id],
              timers  |-> ts \cup {[id |-> id, mirror |-> k]}]
    ELSE [mirrors |-> ms, timers |-> ts]

\* Faulty variant of executionScheduledListener: the original cell's own runs qualify too.
executionScheduledListenerNoSelfCheck(cell, ms, ts, k) ==
    IF ms[k].autoRun
    THEN LET cleared == IF ms[k].autoRunTimeout # Null
                        THEN clearTimeout(ts, ms[k].autoRunTimeout)
                        ELSE ts
             id == setTimeout(ms, cleared)
         IN  [mirrors |-> [ms EXCEPT ![k].autoRunTimeout = id],
              timers  |-> cleared \cup {[id |-> id, mirror |-> k]}]
    ELSE [mirrors |-> ms, timers |-> ts]

\* The executionScheduled listener of mirror k, run for an event naming `cell`.
executionScheduledListener(cell, ms, ts, k) ==
    IF cell # ms[k].originalCell /\ ms[k].autoRun
    THEN LET cleared == IF ms[k].autoRunTimeout # Null
                        THEN clearTimeout(ts, ms[k].autoRunTimeout)
                        ELSE ts
             id == setTimeout(ms, cleared)
         IN  [mirrors |-> [ms EXCEPT ![k].autoRunTimeout = id],
              timers  |-> cleared \cup {[id |-> id, mirror |-> k]}]
    ELSE [mirrors |-> ms, timers |-> ts]

\* NotebookActions.executionScheduled.emit: every connected listener runs, in
\* connection order.  The listeners are never disconnected.
RECURSIVE EmitExecutionScheduled(_, _, _, _)
EmitExecutionScheduled(cell, ms, ts, k) ==
    IF k > Len(ms) THEN [mirrors |-> ms, timers |-> ts]
    ELSE LET r == executionScheduledListener(cell, ms, ts, k)
         IN  EmitExecutionScheduled(cell, r.mirrors, r.timers, k + 1)

\* NotebookActions.run: the cell at the active index is scheduled (Null: none).
RunTarget(ws, active) == IF active >= 0 THEN ws[active + 1] ELSE Null

\* Faulty variant of ActiveAfterExecute: the active cell is never restored.
ActiveAfterExecuteNoRestore(ws, restoreActiveCell, restoreActiveCellIndex, cellIndex) ==
    SetActiveCellIndex(ws, cellIndex)

\* The active index execute() leaves behind.
ActiveAfterExecute(ws, restoreActiveCell, restoreActiveCellIndex, cellIndex) ==
    IF restoreActiveCell
    THEN SetActiveCellIndex(ws, restoreActiveCellIndex)
    ELSE SetActiveCellIndex(ws, cellIndex)

\* Faulty variant of HideOriginalOutput: the original output is left as the host drew it.
HideOriginalOutputNever(inHidden, outHidden) == outHidden

\* handleStateChange, case 'executionCount', on the original cell's outputHidden.
HideOriginalOutput(inHidden, outHidden) == IF inHidden THEN TRUE ELSE outHidden

\* Faulty variant of ShowOriginalCell: the original cell is left hidden.
ShowOriginalCellNot(hidden, cell) == hidden

\* closeClicked: "Show the original cell".
ShowOriginalCell(hidden, cell) == [hidden EXCEPT ![cell] = FALSE]

\* float(): "Query the code cell index for this floating window".
FloatIndex(fws) ==
    1 + Cardinality({i \in DOMAIN fws : fws[i].cellType = "Code"})

\* Faulty variant of FloatingWindow: the children of the wrapper are not appended.
FloatingWindowEmpty(cellType, stickyCell, floatIndex, children) ==
    [cellType |-> cellType, stickyCell |-> stickyCell, floatIndex |-> floatIndex,
     children |-> {}]

\* new FloatingWindow(cellType, stickyCell, floatIndex), holding `children`.
FloatingWindow(cellType, stickyCell, floatIndex, children) ==
    [cellType |-> cellType, stickyCell |-> stickyCell,
     floatIndex |-> floatIndex, children |-> children]

\* The FloatingWindow constructor adds the new window to stickyLand.floatingWindows.
RegisterFloatingWindow(fws, w) == Append(fws, w)

\* Faulty variant of Disposed: a second call attaches the node again.
DisposedNotIdempotent(mr) ==
    [mr EXCEPT !.codeObserver = FALSE, !.toggleDisposed = TRUE,
               !.attached = mr.isDisposed, !.isDisposed = TRUE]

\* dispose(): observers disconnected, nodes removed, isDisposed set.
Disposed(mr) ==
    [mr EXCEPT !.codeObserver = FALSE, !.toggleDisposed = TRUE,
               !.attached = FALSE, !.isDisposed = TRUE]

\* new StickyCode() as createFromExistingCell leaves it.
NewStickyCode(cell, count) ==
    [originalCell     |-> cell,
     executionCounter |-> ExecutionCounterText(count),
     autoRun          |-> FALSE,
     autoRunTimeout   |-> Null,
     isDisposed       |-> FALSE,
     isFloating       |-> FALSE,
     floatingWindow   |-> Null,
     wrapperNode      |-> WrapperChildren,
     attached         |-> TRUE,
     codeObserver     |-> TRUE,
     outputObserver   |-> TRUE,
     toggleDisposed   |-> FALSE,
     dirty            |-> FALSE,
     modFocused       |-> FALSE,
     outputPrompt     |-> FALSE,
     cellInputHidden  |-> FALSE,
     buttonCollapse   |-> TRUE,
     buttonExpand     |-> FALSE,
     placeholder      |-> FALSE]

-----------------------------------------------------------------------------
(* Initial state: a notebook of one cell, no mirror.                       *)

Init ==
    /\ widgets = <<1>>
    /\ activeCellIndex = 0
    /\ numCells = 1
    /\ executionCount = [c \in CellIds |-> Null]
    /\ isDirty = [c \in CellIds |-> FALSE]
    /\ inputHidden = [c \in CellIds |-> FALSE]
    /\ outputHidden = [c \in CellIds |-> FALSE]
    /\ mirrors = <<>>
    /\ timers = {}
    /\ floatingWindows = <<>>
    /\ lastScheduled = Null
    /\ orphanNodes = 0
    /\ lastCall = Call("init", Null)

-----------------------------------------------------------------------------
(* The host document.                                                      *)

\* The user inserts a new cell at position pos; the active cell stays the same cell.
HostInsertCell(pos) ==
    /\ numCells < MaxCells
    /\ pos \in 0..Len(widgets)
    /\ numCells' = numCells + 1
    /\ widgets' = SubSeq(widgets, 1, pos) \o <<numCells + 1>>
                    \o SubSeq(widgets, pos + 1, Len(widgets))
    /\ activeCellIndex' = IF activeCellIndex = -1 THEN 0
                          ELSE IF pos <= activeCellIndex THEN activeCellIndex + 1
                          ELSE activeCellIndex
    /\ lastCall' = Call("HostInsertCell", Null)
    /\ UNCHANGED <<executionCount, isDirty, inputHidden, outputHidden, mirrors, timers,
                   floatingWindows, lastScheduled, orphanNodes>>

\* The user deletes cell c from the document.
HostRemoveCell(c) ==
    /\ c \in Range(widgets)
    /\ LET i == (CHOOSE j \in DOMAIN widgets : widgets[j] = c) - 1
           ws == SubSeq(widgets, 1, i) \o SubSeq(widgets, i + 2, Len(widgets))
       IN  /\ widgets' = ws
           /\ activeCellIndex' =
                  SetActiveCellIndex(ws, IF i < activeCellIndex
                                         THEN activeCellIndex - 1
                                         ELSE activeCellIndex)
    /\ lastCall' = Call("HostRemoveCell", Null)
    /\ UNCHANGED <<numCells, executionCount, isDirty, inputHidden, outputHidden, mirrors,
                   timers, floatingWindows, lastScheduled, orphanNodes>>

\* The user selects another cell of the document.
HostSetActive(i) ==
    /\ i \in 0..(Len(widgets) - 1)
    /\ i # activeCellIndex
    /\ activeCellIndex' = i
    /\ lastCall' = Call("HostSetActive", Null)
    /\ UNCHANGED <<widgets, numCells, executionCount, isDirty, inputHidden, outputHidden,
                   mirrors, timers, floatingWindows, lastScheduled, orphanNodes>>

\* The user runs the active cell in the notebook: executionScheduled is emitted.
HostRun ==
    /\ activeCellIndex >= 0
    /\ LET cell == RunTarget(widgets, activeCellIndex)
           r == EmitExecutionScheduled(cell, mirrors, timers, 1)
       IN  /\ lastScheduled' = cell
           /\ mirrors' = r.mirrors
           /\ timers' = r.timers
           /\ lastCall' = Call("HostRun", Null)
    /\ UNCHANGED <<widgets, activeCellIndex, numCells, executionCount, isDirty, inputHidden,
                   outputHidden, floatingWindows, orphanNodes>>

\* The host redraws the output area of a cell it executes, which shows it.
HostRedrawOutput(c) ==
    /\ c \in Range(widgets)
    /\ outputHidden[c]
    /\ outputHidden' = [outputHidden EXCEPT ![c] = FALSE]
    /\ lastCall' = Call("HostRedrawOutput", c)
    /\ UNCHANGED <<widgets, activeCellIndex, numCells, executionCount, isDirty, inputHidden,
                   mirrors, timers, floatingWindows, lastScheduled, orphanNodes>>

-----------------------------------------------------------------------------
(* The mirror.                                                             *)

\* StickyCode.createFromExistingCell(stickyContent, cell, notebook).
createFromExistingCell(cell) ==
    /\ Len(mirrors) < MaxMirrors
    /\ cell \in Range(widgets)
    /\ inputHidden' = [inputHidden EXCEPT ![cell] = TRUE]
    /\ outputHidden' = [outputHidden EXCEPT ![cell] = TRUE]
    /\ mirrors' = Append(mirrors, NewStickyCode(cell, executionCount[cell]))
    /\ lastCall' = Call("createFromExistingCell", Len(mirrors) + 1)
    /\ UNCHANGED <<widgets, activeCellIndex, numCells, executionCount, isDirty, timers,
                   floatingWindows, lastScheduled, orphanNodes>>

\* createFromExistingCell when the clone's node has no '.CodeMirror' element:
\* reading codeMirrorNode.CodeMirror throws.  The statements before it have run
\* (original cell collapsed, node and toolbar appended to the panel); the
\* statements after it have not (no stateChanged handler, no observers, no
\* executionScheduled listener), and no StickyCode is returned.
createFromExistingCellThrows(cell) ==
    /\ orphanNodes < MaxThrows
    /\ cell \in Range(widgets)
    /\ inputHidden' = [inputHidden EXCEPT ![cell] = TRUE]
    /\ outputHidden' = [outputHidden EXCEPT ![cell] = TRUE]
    /\ orphanNodes' = orphanNodes + 1
    /\ lastCall' = Call("createFromExistingCellThrows", cell)
    /\ UNCHANGED <<widgets, activeCellIndex, numCells, executionCount, isDirty, mirrors,
                   timers, floatingWindows, lastScheduled>>

\* Faulty variant of InsertBelow: the new cell takes the place of the active cell.
InsertBelowReplacing(ws, active, newCell) == [ws EXCEPT ![active + 1] = newCell]

\* NotebookActions.insertBelow: the new cell goes right below the active cell.
InsertBelow(ws, active, newCell) ==
    SubSeq(ws, 1, active + 1) \o <<newCell>> \o SubSeq(ws, active + 2, Len(ws))

\* Faulty variant of ActivateOriginalActiveCell: the new cell stays active.
ActivateOriginalActiveCellNot(ws, active) == active

\* createFromNewCell: "Activate the original active cell".
ActivateOriginalActiveCell(ws, active) == SetActiveCellIndex(ws, active - 1)

\* StickyCode.createFromNewCell(stickyContent, notebook).  insertBelow returns
\* without inserting when the notebook has no active cell; the new cell is a code
\* cell already, so changeCellType leaves it alone.
createFromNewCell ==
    LET newCell   == numCells + 1
        inserted  == InsertBelow(widgets, activeCellIndex, newCell)
    IN  /\ Len(mirrors) < MaxMirrors
        /\ numCells < MaxCells + MaxNewCells
        /\ activeCellIndex >= 0
        /\ numCells' = newCell
        /\ widgets' = inserted
        /\ activeCellIndex' = ActivateOriginalActiveCell(inserted, activeCellIndex + 1)
        /\ inputHidden' = [inputHidden EXCEPT ![newCell] = TRUE]
        /\ outputHidden' = [outputHidden EXCEPT ![newCell] = TRUE]
        /\ mirrors' = Append(mirrors, NewStickyCode(newCell, executionCount[newCell]))
        /\ lastCall' = Call("createFromNewCell", Len(mirrors) + 1)
        /\ UNCHANGED <<executionCount, isDirty, timers, floatingWindows, lastScheduled, orphanNodes>>

\* Faulty variant of handleStateChange: the 'executionCount' case does not update the counter.
handleStateChangeIgnored(mr, newCount) == mr

\* handleStateChange of mirror mr for an 'executionCount' change to newCount.
handleStateChange(mr, newCount) ==
    [mr EXCEPT !.executionCounter = ExecutionCounterText(newCount)]

\* The host sets the execution count of a cell c that has a handler connected; the
\* model's stateChanged signal runs handleStateChange of every mirror connected to
\* it (none is ever disconnected).  The count of a cell nobody mirrors is not read.
HostExecutionCountChanged(c, newCount) ==
    /\ c \in Range(widgets)
    /\ \E k \in DOMAIN mirrors : mirrors[k].originalCell = c
    /\ newCount # executionCount[c]
    /\ executionCount' = [executionCount EXCEPT ![c] = newCount]
    /\ mirrors' = [k \in DOMAIN mirrors |->
                      IF mirrors[k].originalCell = c
                      THEN handleStateChange(mirrors[k], newCount)
                      ELSE mirrors[k]]
    /\ outputHidden' =
           IF \E k \in DOMAIN mirrors : mirrors[k].originalCell = c
           THEN [outputHidden EXCEPT ![c] = HideOriginalOutput(inputHidden[c], @)]
           ELSE outputHidden
    /\ lastCall' = Call("executionCount", c)
    /\ UNCHANGED <<widgets, activeCellIndex, numCells, isDirty, inputHidden, timers,
                   floatingWindows, lastScheduled, orphanNodes>>

\* handleStateChange of mirror mr for an 'isDirty' change to newValue.
handleStateChangeIsDirty(mr, newValue) == [mr EXCEPT !.dirty = newValue]

\* The host changes the dirty flag of cell c (its source is edited, or it is run);
\* stateChanged runs handleStateChange of every mirror connected to the cell.
HostDirtyChanged(c, newValue) ==
    /\ c \in Range(widgets)
    /\ \E k \in DOMAIN mirrors : mirrors[k].originalCell = c
    /\ newValue # isDirty[c]
    /\ isDirty' = [isDirty EXCEPT ![c] = newValue]
    /\ mirrors' = [k \in DOMAIN mirrors |->
                      IF mirrors[k].originalCell = c
                      THEN handleStateChangeIsDirty(mirrors[k], newValue)
                      ELSE mirrors[k]]
    /\ lastCall' = Call("isDirty", c)
    /\ UNCHANGED <<widgets, activeCellIndex, numCells, executionCount, inputHidden,
                   outputHidden, timers, floatingWindows, lastScheduled, orphanNodes>>

\* execute(restoreActiveCell) of mirror m, with `ts` the timers pending at the call.
execute(m, restoreActiveCell, ts) ==
    LET restoreActiveCellIndex == activeCellIndex
        cellIndex == findFirstIndex(widgets, mirrors[m].originalCell)
        active == SetActiveCellIndex(widgets, cellIndex)
        cell == RunTarget(widgets, active)
        r == IF cell # Null
             THEN EmitExecutionScheduled(cell, mirrors, ts, 1)
             ELSE [mirrors |-> mirrors, timers |-> ts]
    IN  /\ activeCellIndex' = ActiveAfterExecute(widgets, restoreActiveCell,
                                                 restoreActiveCellIndex, cellIndex)
        /\ lastScheduled' = IF cell # Null THEN cell ELSE lastScheduled
        /\ mirrors' = r.mirrors
        /\ timers' = r.timers
        /\ UNCHANGED <<widgets, numCells, executionCount, isDirty, inputHidden, outputHidden,
                       floatingWindows, orphanNodes>>

\* The toolbar's run button (and shift/ctrl+enter in the mirror): execute().
runClicked(m) ==
    /\ m \in DOMAIN mirrors
    /\ ~mirrors[m].isDisposed
    /\ execute(m, FALSE, timers)
    /\ lastCall' = Call("runClicked", m)

\* The debounce timer t fires: cd.execute(true).
autoRunTimeoutFired(t) ==
    /\ t \in timers
    /\ execute(t.mirror, TRUE, timers \ {t})
    /\ lastCall' = Call("autoRunTimeout", t.mirror)

\* Faulty variant of toggleValueChanged: the switch also clears the pending timer.
toggleValueChangedCancels(m) ==
    /\ m \in DOMAIN mirrors
    /\ ~mirrors[m].isDisposed
    /\ mirrors' = [mirrors EXCEPT ![m].autoRun = ~@]
    /\ timers' = timers \ PendingIn(timers, m)
    /\ lastCall' = Call("toggleValueChanged", m)
    /\ UNCHANGED <<widgets, activeCellIndex, numCells, executionCount, isDirty, inputHidden,
                   outputHidden, floatingWindows, lastScheduled, orphanNodes>>

\* The auto-run switch of the toolbar: toggle.valueChanged.
toggleValueChanged(m) ==
    /\ m \in DOMAIN mirrors
    /\ ~mirrors[m].isDisposed
    /\ mirrors' = [mirrors EXCEPT ![m].autoRun = ~@]
    /\ lastCall' = Call("toggleValueChanged", m)
    /\ UNCHANGED <<widgets, activeCellIndex, numCells, executionCount, isDirty, inputHidden,
                   outputHidden, timers, floatingWindows, lastScheduled, orphanNodes>>

\* launchClicked: float().
launchClicked(m) ==
    /\ m \in DOMAIN mirrors
    /\ ~mirrors[m].isDisposed
    /\ Len(floatingWindows) < MaxWindows
    /\ floatingWindows' =
           RegisterFloatingWindow(floatingWindows,
               FloatingWindow("Code", m, FloatIndex(floatingWindows),
                              mirrors[m].wrapperNode))
    /\ mirrors' = [mirrors EXCEPT ![m].floatingWindow = Len(floatingWindows) + 1,
                                  ![m].wrapperNode = {},
                                  ![m].isFloating = TRUE]
    /\ lastCall' = Call("launchClicked", m)
    /\ UNCHANGED <<widgets, activeCellIndex, numCells, executionCount, isDirty, inputHidden,
                   outputHidden, timers, lastScheduled, orphanNodes>>

\* A sticky cell of the other content kind floats.
MarkdownFloat ==
    /\ Len(floatingWindows) < MaxWindows
    /\ floatingWindows' =
           RegisterFloatingWindow(floatingWindows,
               FloatingWindow("Markdown", Null,
                   1 + Cardinality({i \in DOMAIN floatingWindows :
                                       floatingWindows[i].cellType = "Markdown"}),
                   WrapperChildren))
    /\ lastCall' = Call("MarkdownFloat", Null)
    /\ UNCHANGED <<widgets, activeCellIndex, numCells, executionCount, isDirty, inputHidden,
                   outputHidden, mirrors, timers, lastScheduled, orphanNodes>>

\* land(): "Put back the nodes" (the body is empty).
land(m) ==
    /\ m \in DOMAIN mirrors
    /\ ~mirrors[m].isDisposed
    /\ lastCall' = Call("land", m)
    /\ UNCHANGED <<widgets, activeCellIndex, numCells, executionCount, isDirty, inputHidden,
                   outputHidden, mirrors, timers, floatingWindows, lastScheduled,
                   orphanNodes>>

\* closeClicked: show the original cell, show the dropzone, dispose().
closeClicked(m) ==
    /\ m \in DOMAIN mirrors
    /\ ~mirrors[m].isDisposed
    /\ inputHidden' = ShowOriginalCell(inputHidden, mirrors[m].originalCell)
    /\ outputHidden' = ShowOriginalCell(outputHidden, mirrors[m].originalCell)
    /\ mirrors' = [mirrors EXCEPT ![m] = Disposed(@)]
    /\ lastCall' = Call("closeClicked", m)
    /\ UNCHANGED <<widgets, activeCellIndex, numCells, executionCount, isDirty, timers,
                   floatingWindows, lastScheduled, orphanNodes>>

\* Faulty variant of collapseClicked: the buttons of the toolbar are not swapped.
collapseClickedKeepsButtons(m) ==
    /\ m \in DOMAIN mirrors
    /\ ~mirrors[m].isDisposed
    /\ mirrors' = [mirrors EXCEPT ![m].cellInputHidden = TRUE,
                                  ![m].placeholder = TRUE]
    /\ lastCall' = Call("collapseClicked", m)
    /\ UNCHANGED <<widgets, activeCellIndex, numCells, executionCount, isDirty, inputHidden,
                   outputHidden, timers, floatingWindows, lastScheduled, orphanNodes>>

\* collapseClicked: hide the clone's input, swap the buttons, show the placeholder.
\* The buttons are looked up in headerNode, which holds the toolbar until dispose.
collapseClicked(m) ==
    /\ m \in DOMAIN mirrors
    /\ ~mirrors[m].isDisposed
    /\ mirrors' = [mirrors EXCEPT ![m].cellInputHidden = TRUE,
                                  ![m].buttonCollapse = FALSE,
                                  ![m].buttonExpand = TRUE,
                                  ![m].placeholder = TRUE]
    /\ lastCall' = Call("collapseClicked", m)
    /\ UNCHANGED <<widgets, activeCellIndex, numCells, executionCount, isDirty, inputHidden,
                   outputHidden, timers, floatingWindows, lastScheduled, orphanNodes>>

\* expandClicked (expand button or placeholder): show the clone's input again.
expandClicked(m) ==
    /\ m \in DOMAIN mirrors
    /\ ~mirrors[m].isDisposed
    /\ mirrors' = [mirrors EXCEPT ![m].cellInputHidden = FALSE,
                                  ![m].buttonCollapse = TRUE,
                                  ![m].buttonExpand = FALSE,
                                  ![m].placeholder = FALSE]
    /\ lastCall' = Call("expandClicked", m)
    /\ UNCHANGED <<widgets, activeCellIndex, numCells, executionCount, isDirty, inputHidden,
                   outputHidden, timers, floatingWindows, lastScheduled, orphanNodes>>

\* dispose(), called by the owner of the mirror.
dispose(m) ==
    /\ m \in DOMAIN mirrors
    /\ mirrors' = [mirrors EXCEPT ![m] = Disposed(@)]
    /\ lastCall' = Call("dispose", m)
    /\ UNCHANGED <<widgets, activeCellIndex, numCells, executionCount, isDirty, inputHidden,
                   outputHidden, timers, floatingWindows, lastScheduled, orphanNodes>>

\* The rendering engine changes the class of the clone's editor node (focus gained
\* or lost).  codeClassMutationHandler runs if codeObserver still observes it.
EditorClassMutation(m, focused) ==
    /\ m \in DOMAIN mirrors
    /\ IF mirrors[m].codeObserver
       THEN /\ mirrors' = [mirrors EXCEPT ![m].modFocused = focused]
            /\ lastCall' = Call("codeClassMutationHandler", m)
       ELSE /\ mirrors' = mirrors
            /\ lastCall' = Call("EditorClassMutation", m)
    /\ UNCHANGED <<widgets, activeCellIndex, numCells, executionCount, isDirty, inputHidden,
                   outputHidden, timers, floatingWindows, lastScheduled, orphanNodes>>

\* The rendering engine redraws the clone's output area and re-inserts the output
\* prompt.  codeOutputMutationHandler removes it if outputObserver still observes.
OutputMutation(m) ==
    /\ m \in DOMAIN mirrors
    /\ IF mirrors[m].outputObserver
       THEN /\ mirrors' = [mirrors EXCEPT ![m].outputPrompt = FALSE]
            /\ lastCall' = Call("codeOutputMutationHandler", m)
       ELSE /\ mirrors' = [mirrors EXCEPT ![m].outputPrompt = TRUE]
            /\ lastCall' = Call("OutputMutation", m)
    /\ UNCHANGED <<widgets, activeCellIndex, numCells, executionCount, isDirty, inputHidden,
                   outputHidden, timers, floatingWindows, lastScheduled, orphanNodes>>

-----------------------------------------------------------------------------
Next ==
    \/ \E pos \in 0..MaxCells : HostInsertCell(pos)
    \/ \E c \in CellIds : HostRemoveCell(c)
    \/ \E i \in 0..(MaxCells + MaxNewCells - 1) : HostSetActive(i)
    \/ HostRun
    \/ \E c \in CellIds : HostRedrawOutput(c)
    \/ \E c \in CellIds, n \in {Null} \cup (1..MaxCount) : HostExecutionCountChanged(c, n)
    \/ \E c \in CellIds, v \in BOOLEAN : HostDirtyChanged(c, v)
    \/ \E c \in CellIds : createFromExistingCell(c)
    \/ \E m \in 1..MaxMirrors : runClicked(m)
    \/ \E t \in timers : autoRunTimeoutFired(t)
    \/ \E m \in 1..MaxMirrors : toggleValueChanged(m)
    \/ \E m \in 1..MaxMirrors : launchClicked(m)
    \/ MarkdownFloat
    \/ \E m \in 1..MaxMirrors : land(m)
    \/ \E m \in 1..MaxMirrors : closeClicked(m)
    \/ \E m \in 1..MaxMirrors : dispose(m)
    \/ \E m \in 1..MaxMirrors, focused \in BOOLEAN : EditorClassMutation(m, focused)
    \/ \E m \in 1..MaxMirrors : OutputMutation(m)
    \/ createFromNewCell
    \/ \E c \in CellIds : createFromExistingCellThrows(c)
    \/ \E m \in 1..MaxMirrors : collapseClicked(m)
    \/ \E m \in 1..MaxMirrors : expandClicked(m)

Spec == Init /\ [][Next]_vars

\* The execution scheduler and execute(): the document, the run actions, the timers.
NextSched ==
    \/ \E pos \in 0..MaxCells : HostInsertCell(pos)
    \/ \E c \in CellIds : HostRemoveCell(c)
    \/ \E i \in 0..(MaxCells - 1) : HostSetActive(i)
    \/ HostRun
    \/ \E c \in CellIds : createFromExistingCell(c)
    \/ \E m \in 1..MaxMirrors : runClicked(m)
    \/ \E t \in timers : autoRunTimeoutFired(t)
    \/ \E m \in 1..MaxMirrors : toggleValueChanged(m)
    \/ \E m \in 1..MaxMirrors : closeClicked(m)

SpecSched == Init /\ [][NextSched]_vars

\* The synchronization bridge: creation, state changes of the original cell, close.
NextSync ==
    \/ \E pos \in 0..MaxCells : HostInsertCell(pos)
    \/ \E c \in CellIds : HostRemoveCell(c)
    \/ \E c \in CellIds : HostRedrawOutput(c)
    \/ \E c \in CellIds, n \in {Null} \cup (1..MaxCount) : HostExecutionCountChanged(c, n)
    \/ \E c \in CellIds, v \in BOOLEAN : HostDirtyChanged(c, v)
    \/ \E c \in CellIds : createFromExistingCell(c)
    \/ \E m \in 1..MaxMirrors : closeClicked(m)

SpecSync == Init /\ [][NextSync]_vars

\* Docking and floating.
NextDock ==
    \/ \E pos \in 0..MaxCells : HostInsertCell(pos)
    \/ \E c \in CellIds : createFromExistingCell(c)
    \/ \E m \in 1..MaxMirrors : launchClicked(m)
    \/ MarkdownFloat
    \/ \E m \in 1..MaxMirrors : land(m)
    \/ \E m \in 1..MaxMirrors : closeClicked(m)

SpecDock == Init /\ [][NextDock]_vars

\* The two watchers of the clone: focus and output redraw.
NextWatch ==
    \/ \E pos \in 0..MaxCells : HostInsertCell(pos)
    \/ \E c \in CellIds : createFromExistingCell(c)
    \/ \E m \in 1..MaxMirrors, focused \in BOOLEAN : EditorClassMutation(m, focused)
    \/ \E m \in 1..MaxMirrors : OutputMutation(m)
    \/ \E m \in 1..MaxMirrors : closeClicked(m)
    \/ \E m \in 1..MaxMirrors : dispose(m)

SpecWatch == Init /\ [][NextWatch]_vars

\* Life of a mirror whose original cell the host may remove.  The only steps the
\* runtime guarantees to take are the callbacks of pending timers.
NextLife ==
    \/ \E pos \in 0..MaxCells : HostInsertCell(pos)
    \/ \E c \in CellIds : HostRemoveCell(c)
    \/ HostRun
    \/ \E c \in CellIds : createFromExistingCell(c)
    \/ \E t \in timers : autoRunTimeoutFired(t)
    \/ \E m \in 1..MaxMirrors : toggleValueChanged(m)
    \/ \E m \in 1..MaxMirrors : closeClicked(m)

SpecLife ==
    Init /\ [][NextLife]_vars /\ WF_vars(\E t \in timers : autoRunTimeoutFired(t))

\* Creation of mirrors, from existing cells and from new cells.
NextNew ==
    \/ \E pos \in 0..MaxCells : HostInsertCell(pos)
    \/ \E i \in 0..(MaxCells + MaxNewCells - 1) : HostSetActive(i)
    \/ \E c \in CellIds : createFromExistingCell(c)
    \/ createFromNewCell
    \/ \E c \in CellIds : createFromExistingCellThrows(c)
    \/ \E m \in 1..MaxMirrors : closeClicked(m)

SpecNew == Init /\ [][NextNew]_vars

\* The operations of the mirror on a document whose content model the host writes.
NextFrame ==
    \/ \E c \in CellIds, n \in {Null} \cup (1..MaxCount) : HostExecutionCountChanged(c, n)
    \/ \E c \in CellIds, v \in BOOLEAN : HostDirtyChanged(c, v)
    \/ \E c \in CellIds : createFromExistingCell(c)
    \/ createFromNewCell
    \/ \E m \in 1..MaxMirrors : collapseClicked(m)
    \/ \E m \in 1..MaxMirrors : expandClicked(m)
    \/ \E m \in 1..MaxMirrors : launchClicked(m)
    \/ \E m \in 1..MaxMirrors : closeClicked(m)
    \/ \E m \in 1..MaxMirrors : dispose(m)

SpecFrame == Init /\ [][NextFrame]_vars

\* The collapse and expand buttons of the toolbar, docked or floating.
NextToolbar ==
    \/ \E pos \in 0..MaxCells : HostInsertCell(pos)
    \/ \E c \in CellIds : createFromExistingCell(c)
    \/ \E m \in 1..MaxMirrors : collapseClicked(m)
    \/ \E m \in 1..MaxMirrors : expandClicked(m)
    \/ \E m \in 1..MaxMirrors : launchClicked(m)
    \/ \E m \in 1..MaxMirrors : closeClicked(m)

SpecToolbar == Init /\ [][NextToolbar]_vars

\* Cells of the notebook that are run while mirrors have auto-run enabled.  The
\* user runs cells that no mirror shows; the callbacks of pending timers are the
\* steps the runtime guarantees.
NextBurst ==
    \/ \E pos \in 0..MaxCells : HostInsertCell(pos)
    \/ \E i \in 0..(MaxCells + MaxNewCells - 1) : HostSetActive(i)
    \/ (\A k \in DOMAIN mirrors :
            mirrors[k].originalCell # RunTarget(widgets, activeCellIndex)) /\ HostRun
    \/ \E c \in CellIds : createFromExistingCell(c)
    \/ createFromNewCell
    \/ \E t \in timers : autoRunTimeoutFired(t)
    \/ \E m \in 1..MaxMirrors : toggleValueChanged(m)

SpecBurst ==
    Init /\ [][NextBurst]_vars /\ WF_vars(\E t \in timers : autoRunTimeoutFired(t))

-----------------------------------------------------------------------------
(* Properties.                                                             *)

OriginalOf(m) == mirrors[m].originalCell

Live(m) == ~mirrors[m].isDisposed

\* C1: in every reachable state at most one live (not disposed) mirror exists per
\* original cell; createFromExistingCell on a cell that already has a live mirror
\* creates no second one.
C1_AtMostOneLiveMirror ==
    \A a, b \in DOMAIN mirrors :
        (a # b /\ Live(a) /\ Live(b)) => OriginalOf(a) # OriginalOf(b)

\* C2: right after createFromExistingCell the original cell's input and output are
\* hidden; right after closeClicked both are visible again, and the mirror that
\* is disposed by the same handler leaves them so.
C2_CloseRestoresVisibility ==
    \A m \in DOMAIN mirrors :
        /\ lastCall = Call("createFromExistingCell", m)
               => inputHidden[OriginalOf(m)] /\ outputHidden[OriginalOf(m)]
        /\ lastCall = Call("closeClicked", m)
               => /\ ~inputHidden[OriginalOf(m)]
                  /\ ~outputHidden[OriginalOf(m)]
                  /\ mirrors[m].isDisposed

C2_Witness ==
    \E m \in DOMAIN mirrors :
        /\ lastCall = Call("closeClicked", m)
        /\ mirrors[m].isDisposed
        /\ ~inputHidden[OriginalOf(m)]
        /\ ~outputHidden[OriginalOf(m)]

\* C5: the counter text of every mirror is "[n]" when the execution count of its
\* original cell is the number n and "[*]" when it is null, after creation and
\* after every change of the count.
C5_ExecutionCounterText ==
    \A m \in DOMAIN mirrors :
        /\ executionCount[OriginalOf(m)] = Null
               => mirrors[m].executionCounter = "[*]"
        /\ \A n \in 0..(MaxCount + 1) :
               executionCount[OriginalOf(m)] = n
                   => mirrors[m].executionCounter = "[" \o ToString(n) \o "]"

C5_Witness ==
    \E m \in DOMAIN mirrors :
        /\ lastCall = Call("executionCount", OriginalOf(m))
        /\ executionCount[OriginalOf(m)] = Null
        /\ mirrors[m].executionCounter = "[*]"

\* C8: right after handleStateChange has handled an execution-count change of a
\* mirrored cell, the original output is hidden if the original input is hidden.
C8_OutputHiddenWithInput ==
    \A c \in CellIds :
        (lastCall = Call("executionCount", c)
            /\ \E m \in DOMAIN mirrors : OriginalOf(m) = c)
        => (inputHidden[c] => outputHidden[c])

C8_Witness ==
    \E m \in DOMAIN mirrors :
        /\ lastCall = Call("executionCount", OriginalOf(m))
        /\ inputHidden[OriginalOf(m)]
        /\ outputHidden[OriginalOf(m)]
        /\ executionCount[OriginalOf(m)] # Null

\* C6: float() followed immediately by land() brings the mirror back to its
\* docked state: the wrapper's children are back in the panel and isFloating is
\* false.
C6_FloatThenLand ==
    [][\A m \in DOMAIN mirrors :
          (lastCall = Call("launchClicked", m) /\ lastCall' = Call("land", m))
          => /\ ~mirrors'[m].isFloating
             /\ mirrors'[m].wrapperNode = WrapperChildren]_vars

\* The live mirrors other than m that are floating.
OtherFloating(m) ==
    {k \in DOMAIN mirrors \ {m} : Live(k) /\ mirrors[k].isFloating}

\* No cell has been mirrored twice.
DistinctOriginals ==
    \A a, b \in DOMAIN mirrors : a # b => OriginalOf(a) # OriginalOf(b)

\* C7: when a docked mirror floats, the index of its new floating window is one
\* plus the number of other code mirrors floating at that moment (stated for the
\* runs in which no cell was mirrored twice).
C7_StackingIndex ==
    [][\A m \in DOMAIN mirrors :
          (/\ lastCall' = Call("launchClicked", m)
           /\ ~mirrors[m].isFloating
           /\ DistinctOriginals)
          => floatingWindows'[Len(floatingWindows')].floatIndex
                 = 1 + Cardinality(OtherFloating(m))]_vars

\* C3: at most one debounce timer is pending per mirror; an execution-scheduled
\* event that qualifies leaves exactly the newly armed timer pending for the
\* mirror (the previous one is cancelled); every auto-run of a mirror consumes
\* the one timer that was pending for it, and nothing else makes a pending timer
\* go away without arming its successor.  N qualifying events that arrive
\* before the timer fires therefore end in exactly one auto-run.
C3_Debounce ==
    [][\A m \in DOMAIN mirrors :
          /\ Cardinality(PendingIn(timers', m)) <= 1
          /\ mirrors'[m].autoRunTimeout # mirrors[m].autoRunTimeout
                 => PendingIn(timers', m)
                        = {[id |-> mirrors'[m].autoRunTimeout, mirror |-> m]}
          /\ lastCall' = Call("autoRunTimeout", m)
                 => /\ Cardinality(PendingIn(timers, m)) = 1
                    /\ PendingIn(timers, m) \cap timers' = {}
          /\ (lastCall' # Call("autoRunTimeout", m) /\ PendingIn(timers, m) # {})
                 => PendingIn(timers', m) # {}]_vars

C3_Witness ==
    \E m \in DOMAIN mirrors :
        /\ lastCall = Call("autoRunTimeout", m)
        /\ mirrors[m].autoRun
        /\ OriginalOf(m) \in Range(widgets)
        /\ lastScheduled = OriginalOf(m)
        /\ PendingIn(timers, m) = {}

\* C4: a step arms a timer for a mirror (its slot changes, or a timer is pending
\* for it that was not before) only if it emits an execution-scheduled event
\* that names another cell than the mirror's original cell while auto-run is
\* enabled for the mirror.
C4_NoTimerForOwnCellOrAutoRunOff ==
    [][\A m \in DOMAIN mirrors :
          (\/ mirrors'[m].autoRunTimeout # mirrors[m].autoRunTimeout
           \/ ~(PendingIn(timers', m) \subseteq PendingIn(timers, m)))
          => /\ lastCall'.op \in {"HostRun", "runClicked", "autoRunTimeout"}
             /\ mirrors[m].autoRun
             /\ lastScheduled' # OriginalOf(m)]_vars

C4_Witness ==
    \E m \in DOMAIN mirrors :
        /\ lastCall = Call("runClicked", m)
        /\ mirrors[m].autoRun
        /\ lastScheduled = OriginalOf(m)
        /\ mirrors[m].autoRunTimeout = Null
        /\ PendingIn(timers, m) = {}

\* C9: whatever cells were inserted or removed elsewhere, a run issued by a mirror
\* whose original cell is in the document runs that cell; after the toolbar's run
\* the active index is the cell's current index.
C9_ExecuteRunsOriginalCell ==
    \A m \in DOMAIN mirrors :
        (OriginalOf(m) \in Range(widgets)) =>
            /\ lastCall = Call("autoRunTimeout", m) => lastScheduled = OriginalOf(m)
            /\ lastCall = Call("runClicked", m)
                   => /\ lastScheduled = OriginalOf(m)
                      /\ activeCellIndex + 1 \in DOMAIN widgets
                      /\ widgets[activeCellIndex + 1] = OriginalOf(m)

C9_Witness ==
    \E m \in DOMAIN mirrors :
        /\ lastCall = Call("runClicked", m)
        /\ lastScheduled = OriginalOf(m)
        /\ OriginalOf(m) = 1
        /\ widgets = <<2, 1>>
        /\ activeCellIndex = 1

\* C10: execute(true), which every auto-run uses, leaves the active index as it
\* was before the call; execute(false), which the toolbar's run uses, leaves it
\* at the index of the original cell (when the cell is in the document).
C10_ActiveIndexAfterExecute ==
    [][\A m \in DOMAIN mirrors :
          /\ lastCall' = Call("autoRunTimeout", m)
                 => activeCellIndex' = activeCellIndex
          /\ (lastCall' = Call("runClicked", m) /\ OriginalOf(m) \in Range(widgets))
                 => /\ activeCellIndex' + 1 \in DOMAIN widgets
                    /\ widgets[activeCellIndex' + 1] = OriginalOf(m)]_vars

C10_Witness ==
    \E m \in DOMAIN mirrors :
        /\ lastCall = Call("autoRunTimeout", m)
        /\ lastScheduled = OriginalOf(m)
        /\ activeCellIndex >= 0
        /\ widgets[activeCellIndex + 1] # OriginalOf(m)

\* C11: after a mirror is disposed neither watcher's handler runs for it: no
\* mutation of its editor node or of its output area triggers
\* codeClassMutationHandler or codeOutputMutationHandler.
C11_WatchersDisconnected ==
    [][\A m \in DOMAIN mirrors :
          mirrors[m].isDisposed
          => /\ lastCall' # Call("codeClassMutationHandler", m)
             /\ lastCall' # Call("codeOutputMutationHandler", m)]_vars

\* C12: the stateChanged subscription is cancelled at disposal: once a mirror is
\* disposed, an execution-count or dirty change of its original cell changes
\* neither the mirror's display nor, through its handler, the outputHidden flag of
\* the original cell.
C12_StateChangedDisconnected ==
    [][\A m \in DOMAIN mirrors :
          mirrors[m].isDisposed
          => /\ mirrors'[m].executionCounter = mirrors[m].executionCounter
             /\ mirrors'[m].dirty = mirrors[m].dirty
             /\ (/\ lastCall'.op \in {"executionCount", "isDirty"}
                 /\ \A k \in DOMAIN mirrors :
                        mirrors[k].originalCell = mirrors[m].originalCell
                        => mirrors[k].isDisposed)
                => outputHidden'[mirrors[m].originalCell]
                     = outputHidden[mirrors[m].originalCell]]_vars

\* C13: when the host removes the original cell of a live mirror, the mirror is
\* eventually disposed.
C13_RemovedCellDisposesMirror ==
    \A m \in 1..MaxMirrors :
        (m \in DOMAIN mirrors /\ Live(m) /\ OriginalOf(m) \notin Range(widgets))
        ~> (m \in DOMAIN mirrors /\ mirrors[m].isDisposed)

\* C14: createFromNewCell inserts exactly one new cell right below the cell that
\* was active, leaves activeCellIndex at its value before the call, and returns a
\* mirror whose original cell is the new cell.
C14_CreateFromNewCell ==
    [][\A m \in 1..MaxMirrors :
          lastCall' = Call("createFromNewCell", m)
          => /\ Len(widgets') = Len(widgets) + 1
             /\ widgets'[activeCellIndex + 2] \notin Range(widgets)
             /\ \A i \in DOMAIN widgets :
                    widgets[i] = widgets'[IF i <= activeCellIndex + 1 THEN i ELSE i + 1]
             /\ activeCellIndex' = activeCellIndex
             /\ Len(mirrors') = m
             /\ mirrors'[m].originalCell = widgets'[activeCellIndex + 2]
             /\ ~mirrors'[m].isDisposed]_vars

\* A new cell was created between two cells and the upper one is active again.
C14_Witness ==
    \E m \in DOMAIN mirrors :
        /\ lastCall = Call("createFromNewCell", m)
        /\ Len(widgets) = 3
        /\ activeCellIndex = 0
        /\ widgets[2] = OriginalOf(m)

\* C15: a creation that fails part-way leaves nothing behind: the visibility of the
\* original cell, the nodes of the panel and the subscriptions (the mirrors and
\* their handlers) are as before the call.
C15_FailedCreationLeavesNothing ==
    [][lastCall'.op = "createFromExistingCellThrows"
       => /\ inputHidden' = inputHidden
          /\ outputHidden' = outputHidden
          /\ orphanNodes' = orphanNodes
          /\ mirrors' = mirrors]_vars

\* The floating windows of mirror m that hold the children of its wrapper.
HoldingWindows(m) ==
    {i \in DOMAIN floatingWindows :
        floatingWindows[i].stickyCell = m /\ floatingWindows[i].children # {}}

C17_DisposeIdempotent ==
    [][\A m \in DOMAIN mirrors :
          (lastCall' = Call("dispose", m) /\ mirrors[m].isDisposed)
          => /\ mirrors' = mirrors
             /\ UNCHANGED <<widgets, activeCellIndex, numCells, executionCount, isDirty,
                            inputHidden, outputHidden, timers, floatingWindows,
                            lastScheduled, orphanNodes>>]_vars

\* The only mirror was closed (its original cell is shown again) and dispose()
\* was then called on it a second time.
C17_Witness ==
    /\ Len(mirrors) = 1
    /\ orphanNodes = 0
    /\ lastCall = Call("dispose", 1)
    /\ mirrors[1].isDisposed
    /\ ~inputHidden[OriginalOf(1)]

\* The handlers and operations of the mirror, by the name they leave in lastCall.
MirrorOps ==
    {"createFromExistingCell", "createFromExistingCellThrows", "createFromNewCell",
     "collapseClicked", "expandClicked", "launchClicked", "land", "closeClicked",
     "dispose", "runClicked", "autoRunTimeout", "toggleValueChanged",
     "codeClassMutationHandler", "codeOutputMutationHandler"}

\* C18: no operation of the mirror removes a cell from the document or writes a
\* cell's content model (execution count, dirty flag).  In a state-change step the
\* host writes one field of one cell and the handlers write nothing more.
C18_ContentModelUntouched ==
    [][/\ lastCall'.op \in MirrorOps
          => /\ executionCount' = executionCount
             /\ isDirty' = isDirty
             /\ Range(widgets) \subseteq Range(widgets')
       /\ lastCall'.op = "executionCount"
          => /\ \A c \in CellIds \ {lastCall'.id} : executionCount'[c] = executionCount[c]
             /\ isDirty' = isDirty
             /\ widgets' = widgets
       /\ lastCall'.op = "isDirty"
          => /\ \A c \in CellIds \ {lastCall'.id} : isDirty'[c] = isDirty[c]
             /\ executionCount' = executionCount
             /\ widgets' = widgets]_vars

\* A mirror made from a new cell has been collapsed, floated, has handled a change
\* of execution count and of dirty flag, and has then been closed.
C18_Witness ==
    \E m \in DOMAIN mirrors :
        /\ lastCall = Call("closeClicked", m)
        /\ OriginalOf(m) # 1
        /\ Len(widgets) = 2
        /\ mirrors[m].cellInputHidden
        /\ mirrors[m].isFloating
        /\ mirrors[m].dirty
        /\ executionCount[OriginalOf(m)] = 1
        /\ mirrors[m].executionCounter = "[1]"

\* C19: the slot autoRunTimeout of a mirror is non-null only while the timer it
\* names is armed and has not fired: the callback leaves the slot null.
C19_SlotOnlyWhilePending ==
    \A m \in DOMAIN mirrors :
        mirrors[m].autoRunTimeout # Null
        => \E t \in timers : t.id = mirrors[m].autoRunTimeout /\ t.mirror = m

\* C20: a pending timer goes away only by firing or by a new timer being armed
\* for the same mirror; the auto-run switch leaves the pending timers alone, and a
\* timer that fires issues its run whether or not auto-run is still on.
C20_OnlyRearmingCancels ==
    [][/\ \A t \in timers :
             t \notin timers'
             => \/ lastCall' = Call("autoRunTimeout", t.mirror)
                \/ \E t2 \in timers' \ timers : t2.mirror = t.mirror
       /\ lastCall'.op = "toggleValueChanged" => timers' = timers
       /\ \A m \in DOMAIN mirrors :
             (lastCall' = Call("autoRunTimeout", m) /\ OriginalOf(m) \in Range(widgets))
             => lastScheduled' = OriginalOf(m)]_vars

\* Auto-run was switched off while the timer was pending, and the timer has fired
\* and run the original cell all the same.
C20_Witness ==
    \E m \in DOMAIN mirrors :
        /\ lastCall = Call("autoRunTimeout", m)
        /\ ~mirrors[m].autoRun
        /\ OriginalOf(m) \in Range(widgets)
        /\ lastScheduled = OriginalOf(m)

\* The input of mirror record mr is shown: collapse button visible, expand button
\* and placeholder hidden.
InputShown(mr) ==
    /\ ~mr.cellInputHidden
    /\ mr.buttonCollapse
    /\ ~mr.buttonExpand
    /\ ~mr.placeholder

\* C21: for a live mirror exactly one of the collapse and expand buttons is
\* visible, and its input is hidden iff the expand button is visible and the
\* placeholder is shown; a new mirror has its input shown, and expandClicked
\* brings a collapsed mirror back to that state.
C21_CollapseExpand ==
    [][\A m \in DOMAIN mirrors' :
          ~mirrors'[m].isDisposed
          => /\ mirrors'[m].buttonCollapse # mirrors'[m].buttonExpand
             /\ mirrors'[m].cellInputHidden
                  <=> (mirrors'[m].buttonExpand /\ mirrors'[m].placeholder)
             /\ lastCall'.op = "createFromExistingCell" /\ lastCall'.id = m
                  => InputShown(mirrors'[m])
             /\ lastCall' = Call("expandClicked", m) => InputShown(mirrors'[m])
             /\ lastCall' = Call("collapseClicked", m) => ~InputShown(mirrors'[m])]_vars

\* A floating mirror has been collapsed.
C21_Witness ==
    \E m \in DOMAIN mirrors :
        /\ Live(m)
        /\ lastCall = Call("collapseClicked", m)
        /\ mirrors[m].isFloating
        /\ mirrors[m].cellInputHidden
        /\ mirrors[m].buttonExpand
        /\ mirrors[m].placeholder

\* C22: when the cells that no mirror shows are run only finitely often (and the
\* user eventually leaves the toolbars and the notebook alone, so that only timer
\* callbacks remain), the auto-runs come to an end: eventually no debounce timer
\* is pending any more.
C22_AutoRunsTerminate ==
    <>[][lastCall'.op = "autoRunTimeout"]_vars => <>[](timers = {})

\* C23: once a mirror is disposed no run is issued on its behalf: its timer does
\* not fire into execute, and no execution-scheduled event arms a timer for it.
C23_NoRunAfterDispose ==
    [][\A m \in DOMAIN mirrors :
          mirrors[m].isDisposed
          => /\ lastCall' # Call("autoRunTimeout", m)
             /\ PendingIn(timers', m) \subseteq PendingIn(timers, m)]_vars

\* The floating windows made for mirror m.
WindowsOf(fws, m) == {i \in DOMAIN fws : fws[i].cellType = "Code" /\ fws[i].stickyCell = m}

\* C24: float on a mirror that is already floating creates no further floating
\* window and moves nothing: a mirror has at most one floating window.
C24_FloatOnlyFromDocked ==
    [][\A m \in DOMAIN mirrors :
          /\ Cardinality(WindowsOf(floatingWindows', m)) <= 1
          /\ (lastCall' = Call("launchClicked", m) /\ mirrors[m].isFloating)
             => /\ floatingWindows' = floatingWindows
                /\ mirrors'[m].wrapperNode = mirrors[m].wrapperNode]_vars

\* C25: closing a floating mirror leaves no floating window behind for it, so
\* that the windows that exist are those of live floating mirrors.
C25_CloseRemovesWindow ==
    [][\A m \in DOMAIN mirrors :
          lastCall' = Call("closeClicked", m)
          => /\ WindowsOf(floatingWindows', m) = {}
             /\ \A i \in DOMAIN floatingWindows' :
                    floatingWindows'[i].cellType = "Code"
                    => /\ ~mirrors'[floatingWindows'[i].stickyCell].isDisposed
                       /\ mirrors'[floatingWindows'[i].stickyCell].isFloating]_vars

====
